---- MODULE Spec2Model ----
(***************************************************************************)
(* Model of dtree.py: the Dtree class (entropy, feature selection and the  *)
(* recursive build_tree).  build_tree is modelled as an explicit call      *)
(* stack, one frame per active call, one action per branch of its body.    *)
(*                                                                         *)
(* Floating point numbers are modelled in fixed point: a Python float x is *)
(* the integer x * Denom * Scale, where Denom is a common multiple of all  *)
(* row counts and Scale the resolution of the tabulated logarithms.  The   *)
(* machine epsilon added in get_entropy_feature is far below that          *)
(* resolution and is carried as a second, lower-order component (see       *)
(* get_entropy_feature).  The rounding of sums and products in the last    *)
(* bit is not modelled.                                                    *)
(***************************************************************************)
EXTENDS Integers, Sequences, FiniteSets, TLC

\* ---- bounds of the model ----
MaxRows == 4
MaxDepthBound == 2

\* ---- atoms ----
target == "T"
None == "None"
FeatureValues == <<"a", "b">>
Labels == <<"Yes", "No", "Maybe">>
\* Column names of the input tables; "" is a falsy name in Python.
ColumnLists == { <<"F">>, <<"F", "G">>, <<"">>, <<"", "G">> }

Range(s) == { s[i] : i \in 1..Len(s) }

\* f[1] + ... + f[n]
RECURSIVE SumSeq(_, _)
SumSeq(f, n) == IF n = 0 THEN 0 ELSE f[n] + SumSeq(f, n - 1)

RECURSIVE Gcd(_, _)
Gcd(a, b) == IF b = 0 THEN a ELSE Gcd(b, a % b)

RECURSIVE LcmUpTo(_)
LcmUpTo(n) == IF n <= 1 THEN 1 ELSE (LcmUpTo(n - 1) * n) \div Gcd(LcmUpTo(n - 1), n)

\* Fixed point: common denominator of the fractions count/len(df).
Denom == LcmUpTo(MaxRows)

\* np.log and np.log2 of 1..8, in millionths; composite entries are the sums
\* of their prime factors' entries, as log(x*y) = log(x) + log(y).
LnTable == <<0, 693147, 1098612, 1386294, 1609438, 1791759, 1945910, 2079441>>
Log2Table == <<0, 1000000, 1584963, 2000000, 2321928, 2584963, 2807355, 3000000>>

\* ---- pandas helpers ----
\* df[c].unique(): the distinct values of a column, in first-encountered order.
RECURSIVE UniqueFrom(_, _)
UniqueFrom(s, seen) ==
    IF s = <<>> THEN <<>>
    ELSE IF Head(s) \in seen THEN UniqueFrom(Tail(s), seen)
    ELSE <<Head(s)>> \o UniqueFrom(Tail(s), seen \cup {Head(s)})

Column(df, c) == [i \in 1..Len(df) |-> df[i][c]]

unique(df, c) == UniqueFrom(Column(df, c), {})

\* df[df[c] == v].reset_index(drop=True)
Filter(df, c, v) == SelectSeq(df, LAMBDA row : row[c] = v)

\* len(df[c][df[c] == v])
Count(df, c, v) == Cardinality({ i \in 1..Len(df) : df[i][c] = v })

\* len(df[c][df[c] == v][df[target] == t])
CountBoth(df, c, v, t) ==
    Cardinality({ i \in 1..Len(df) : df[i][c] = v /\ df[i][target] = t })

\* ---- entropies ----
get_entropy_df(df) ==
    LET values == unique(df, target)
        n == Len(df)
        term == [k \in 1..Len(values) |->
                    LET cnt == Count(df, target, values[k])
                    IN  (Denom \div n) * cnt * (Log2Table[n] - Log2Table[cnt])]
    IN  SumSeq(term, Len(values))

\* A float near x + k * log(1 + eps) is the pair <<x, k>>, x in millionths
\* over Denom and k over Denom; pairs are ordered by x, then by k.
PairAdd(x, y) == <<x[1] + y[1], x[2] + y[2]>>

PairNeg(x) == <<0 - x[1], 0 - x[2]>>

PairLess(x, y) == x[1] < y[1] \/ (x[1] = y[1] /\ x[2] < y[2])

PairAbs(x) == IF PairLess(x, <<0, 0>>) THEN PairNeg(x) ELSE x

\* f[1] + ... + f[n], for pairs
RECURSIVE PairSum(_, _)
PairSum(f, n) == IF n = 0 THEN <<0, 0>> ELSE PairAdd(f[n], PairSum(f, n - 1))

\* eps = np.finfo(np.float).eps.  den + eps rounds to den for den >= 2, and
\* 1/(1 + eps) + eps to 1: a zero count yields 0, a partition of one label
\* yields -log(1) = 0 when it has one row and -log(1 + eps) when it has more.
get_entropy_feature(feature, df) ==
    LET target_variables == unique(df, target)
        variables == unique(df, feature)
        n == Len(df)
        inner(variable) ==
            LET den == Count(df, feature, variable)
                t == [k \in 1..Len(target_variables) |->
                        LET num == CountBoth(df, feature, variable, target_variables[k])
                        IN  IF num = 0 THEN <<0, 0>>
                            ELSE IF num = den
                                 THEN <<0, IF den >= 2 THEN 0 - (Denom \div n) * den ELSE 0>>
                            ELSE <<0 - (Denom \div n) * num * (LnTable[num] - LnTable[den]), 0>>]
            IN  PairSum(t, Len(target_variables))
        terms == [k \in 1..Len(variables) |-> PairNeg(inner(variables[k]))]
    IN  PairAbs(PairSum(terms, Len(variables)))

\* ---- state ----
VARIABLES
    df,         \* self.df: the table, a sequence of rows (column name -> value)
    columns,    \* df.keys().drop(target): the non-target columns, in table order
    features,   \* self.features
    max_depth,  \* self.max_depth
    phase,      \* "new" before build_tree() is called, "running", "done"
    stack,      \* the active build_tree calls, outermost first
    result,     \* what the outermost build_tree call returned
    notices,    \* number of "Pure solution not possible" lines printed
    noneCalls,  \* history: calls in which get_lowest_entropy_feature returned None
    steps,      \* history: steps taken by build_tree so far
    call,       \* history: the latest get_lowest_entropy_feature call
    last        \* history: the latest build_tree call that returned

vars == <<df, columns, features, max_depth, phase, stack, result, notices,
          noneCalls, steps, call, last>>

config == <<df, columns, features, max_depth>>

\* ---- trees ----
\* A Python tree is None, a bare label, or {node: {value: subtree, ...}}.
NoneTree == [kind |-> "none"]
LeafTree(label) == [kind |-> "leaf", label |-> label]
NodeTree(node, children) == [kind |-> "node", feature |-> node, children |-> children]

\* ---- get_lowest_entropy_feature ----
Entropies(sub) ==
    LET entropy_df == get_entropy_df(sub)
    IN  [k \in 1..Len(features) |->
            PairAdd(<<entropy_df, 0>>,
                    PairNeg(get_entropy_feature(features[k], sub)))]

\* Variant of the test of line 86 that also gives up on two distinct gains.
NoGainPossible_loose(entropies) == Cardinality(Range(entropies)) <= 2

\* len(set(entropies)) is 1
NoGainPossible(entropies) == Cardinality(Range(entropies)) = 1

\* np.argmax: the first index of the maximum
argmax(entropies) ==
    CHOOSE k \in 1..Len(entropies) :
        /\ \A j \in 1..Len(entropies) : ~PairLess(entropies[k], entropies[j])
        /\ \A j \in 1..(k - 1) : PairLess(entropies[j], entropies[k])

\* lines 85-88, given the list entropies of lines 80-83
LowestOf(entropies) ==
    IF NoGainPossible(entropies) THEN None
    ELSE columns[argmax(entropies)]

get_lowest_entropy_feature(sub) == LowestOf(Entropies(sub))

\* Python truthiness of what get_lowest_entropy_feature returns
Truthy(node) == node # None /\ node # ""

\* ---- build_tree ----
\* Variant of the purity test that also accepts two distinct labels.
IsPure_loose(subtable) == Cardinality(Range(Column(subtable, target))) <= 2

\* len(counts) == 1 for np.unique(subtable[target], return_counts=True)
IsPure(subtable) == Cardinality(Range(Column(subtable, target))) = 1

\* inner_variables[0]
FirstLabel(subtable) == CHOOSE l \in Range(Column(subtable, target)) : TRUE

\* Variant of the depth test that is off by one.
DepthExhausted_late(depth) == depth > max_depth

\* depth >= self.max_depth
DepthExhausted(depth) == depth >= max_depth

\* A call build_tree(df=sub, tree=None, depth=depth) that has not run yet.
\* path is history: the (feature, value) choices that led to sub.
Frame(sub, depth, path) ==
    [df |-> sub, depth |-> depth, entry |-> depth, path |-> path, pc |-> "enter",
     node |-> None, variables |-> <<>>, i |-> 1, tree |-> NoneTree]

Top == stack[Len(stack)]

SetTop(f) == [stack EXCEPT ![Len(stack)] = f]

AddChild(tree, value, child) ==
    [tree EXCEPT !.children = Append(@, [value |-> value, child |-> child])]

\* The top call returns r: the caller stores it under the value it recursed
\* on (line 118) and goes on with its loop, or the build is over.
Return(r, how, sel, printed) ==
    /\ last' = [df |-> Top.df, entry |-> Top.entry, depth |-> Top.depth,
                path |-> Top.path, sel |-> sel, how |-> how,
                printed |-> printed, result |-> r]
    /\ IF Len(stack) = 1
       THEN /\ stack' = <<>>
            /\ result' = r
            /\ phase' = "done"
       ELSE LET parent == stack[Len(stack) - 1]
                resumed == [parent EXCEPT
                              !.tree = AddChild(@, parent.variables[parent.i], r),
                              !.i = @ + 1,
                              !.pc = "loop"]
            IN  /\ stack' = [SubSeq(stack, 1, Len(stack) - 1)
                                EXCEPT ![Len(stack) - 1] = resumed]
                /\ UNCHANGED <<result, phase>>

\* A call is at its first line, inside its loop over the values (line 108),
\* or past the loop (line 120).
AtEntry ==
    /\ phase = "running"
    /\ Top.pc = "enter"

InLoop ==
    /\ phase = "running"
    /\ Top.pc = "loop"
    /\ Top.i <= Len(Top.variables)

AtLoopEnd ==
    /\ phase = "running"
    /\ Top.pc = "loop"
    /\ Top.i > Len(Top.variables)

\* dt.build_tree(): df=None, tree=None, depth=0
BuildTree ==
    /\ phase = "new"
    /\ phase' = "running"
    /\ stack' = <<Frame(df, 0, <<>>)>>
    /\ steps' = steps + 1
    /\ UNCHANGED <<config, result, notices, noneCalls, call, last>>

\* lines 98-101: "if not node" holds
Abandon ==
    /\ AtEntry
    /\ LET entropies == Entropies(Top.df)
           node == LowestOf(entropies)
       IN  /\ ~Truthy(node)
           /\ call' = [made |-> TRUE, df |-> Top.df, entropies |-> entropies,
                       node |-> node]
           /\ noneCalls' = noneCalls + (IF node = None THEN 1 ELSE 0)
           /\ notices' = notices + 1
           /\ Return(Top.tree, "abandon", node, 1)
    /\ steps' = steps + 1
    /\ UNCHANGED config

\* lines 98-106: a truthy node was returned
Select ==
    /\ AtEntry
    /\ LET entropies == Entropies(Top.df)
           node == LowestOf(entropies)
       IN  /\ Truthy(node)
           /\ call' = [made |-> TRUE, df |-> Top.df, entropies |-> entropies,
                       node |-> node]
           /\ stack' = SetTop([Top EXCEPT !.node = node,
                                          !.variables = unique(Top.df, node),
                                          !.tree = NodeTree(node, <<>>),
                                          !.pc = "loop"])
    /\ steps' = steps + 1
    /\ UNCHANGED <<config, phase, result, notices, noneCalls, last>>

Value == Top.variables[Top.i]

Subtable == Filter(Top.df, Top.node, Value)

\* lines 112-113
Leaf ==
    /\ InLoop
    /\ IsPure(Subtable)
    /\ stack' = SetTop([Top EXCEPT
                          !.tree = AddChild(@, Value, LeafTree(FirstLabel(Subtable))),
                          !.i = @ + 1])
    /\ steps' = steps + 1
    /\ UNCHANGED <<config, phase, result, notices, noneCalls, call, last>>

\* Variant of lines 114-115 that skips the value (continue) instead of returning.
Truncate_skip ==
    /\ InLoop
    /\ ~IsPure(Subtable)
    /\ DepthExhausted(Top.depth)
    /\ stack' = SetTop([Top EXCEPT !.i = @ + 1])
    /\ steps' = steps + 1
    /\ UNCHANGED <<config, phase, result, notices, noneCalls, call, last>>

\* lines 114-115
Truncate ==
    /\ InLoop
    /\ ~IsPure(Subtable)
    /\ DepthExhausted(Top.depth)
    /\ Return(Top.tree, "truncate", Top.node, 0)
    /\ steps' = steps + 1
    /\ UNCHANGED <<config, notices, noneCalls, call>>

\* lines 116-118: depth += 1, then the recursive call
Recurse ==
    /\ InLoop
    /\ ~IsPure(Subtable)
    /\ ~DepthExhausted(Top.depth)
    /\ LET depth == Top.depth + 1
       IN  stack' = Append(SetTop([Top EXCEPT !.depth = depth, !.pc = "wait"]),
                           Frame(Subtable, depth,
                                 Append(Top.path, <<Top.node, Value>>)))
    /\ steps' = steps + 1
    /\ UNCHANGED <<config, phase, result, notices, noneCalls, call, last>>

\* line 120
Finish ==
    /\ AtLoopEnd
    /\ Return(Top.tree, "finish", Top.node, 0)
    /\ steps' = steps + 1
    /\ UNCHANGED <<config, notices, noneCalls, call>>

\* ---- Dtree.__init__ over the input tables ----
RowSet(cols) ==
    { r \in [Range(cols) \cup {target} -> Range(FeatureValues) \cup Range(Labels)] :
        /\ r[target] \in Range(Labels)
        /\ \A c \in Range(cols) : r[c] \in Range(FeatureValues) }

IsPrefix(s, t) == Len(s) <= Len(t) /\ \A k \in 1..Len(s) : s[k] = t[k]

\* Values are opaque atoms, compared for equality only: tables are taken up
\* to renaming, each column's values named in order of first appearance.
Canonical(table, cols) ==
    /\ IsPrefix(unique(table, target), Labels)
    /\ \A c \in Range(cols) : IsPrefix(unique(table, c), FeatureValues)

Tables(cols) ==
    { t \in UNION { [1..n -> RowSet(cols)] : n \in 1..MaxRows } : Canonical(t, cols) }

\* features: any ordered, non-empty set of non-target columns; features=None
\* gives df.columns.drop(target), the list cols itself.
FeatureLists(cols) ==
    { fl \in UNION { [1..n -> Range(cols)] : n \in 1..Len(cols) } :
        \A j, k \in 1..Len(fl) : j # k => fl[j] # fl[k] }

Init ==
    /\ columns \in ColumnLists
    /\ df \in Tables(columns)
    /\ features \in FeatureLists(columns)
    /\ max_depth \in 0..MaxDepthBound
    /\ phase = "new"
    /\ stack = <<>>
    /\ result = NoneTree
    /\ notices = 0
    /\ noneCalls = 0
    /\ steps = 0
    /\ call = [made |-> FALSE, df |-> <<>>, entropies |-> <<>>, node |-> None]
    /\ last = [df |-> <<>>, entry |-> 0, depth |-> 0, path |-> <<>>, sel |-> None,
               how |-> "none", printed |-> 0, result |-> NoneTree]

Next ==
    \/ BuildTree
    \/ Abandon
    \/ Select
    \/ Leaf
    \/ Truncate
    \/ Recurse
    \/ Finish

Spec == Init /\ [][Next]_vars

\* ---- vocabulary of the properties ----
Returned == last.how # "none"

\* The latest returned call got past "if not node" and built a node.
BuiltNode == last.how \in {"truncate", "finish"}

SingleLabel(rows) == \A j, k \in 1..Len(rows) : rows[j][target] = rows[k][target]

ConstantOn(rows, c) == \A j, k \in 1..Len(rows) : rows[j][c] = rows[k][c]

Keys(tree) == [k \in 1..Len(tree.children) |-> tree.children[k].value]

\* The gains the latest selection computed are all one value.
AllGainsEqual == \A j, k \in 1..Len(call.entropies) : call.entropies[j] = call.entropies[k]

\* First index at which a gain of the latest selection is maximal.
FirstMaxGain ==
    CHOOSE k \in 1..Len(call.entropies) :
        /\ \A j \in 1..Len(call.entropies) : ~PairLess(call.entropies[k], call.entropies[j])
        /\ \A j \in 1..(k - 1) : call.entropies[j] # call.entropies[k]

\* Index of the first value of column c whose partition of rows is impure,
\* Len + 1 when every partition is pure.
FirstImpure(rows, c) ==
    LET vals == unique(rows, c)
        impure == { k \in 1..Len(vals) : ~SingleLabel(Filter(rows, c, vals[k])) }
    IN  IF impure = {} THEN Len(vals) + 1
        ELSE CHOOSE k \in impure : \A j \in impure : k <= j

RECURSIVE FilterPath(_, _)
FilterPath(rows, path) ==
    IF path = <<>> THEN rows
    ELSE FilterPath(Filter(rows, Head(path)[1], Head(path)[2]), Tail(path))

\* Every Leaf of tree, built over rows, stands for a non-empty, single-label
\* set of rows carrying the Leaf's label.
RECURSIVE LeavesSound(_, _)
LeavesSound(tree, rows) ==
    CASE tree.kind = "none" -> TRUE
      [] tree.kind = "leaf" ->
            /\ rows # <<>>
            /\ \A k \in 1..Len(rows) : rows[k][target] = tree.label
      [] tree.kind = "node" ->
            \A k \in 1..Len(tree.children) :
                LeavesSound(tree.children[k].child,
                            Filter(rows, tree.feature, tree.children[k].value))

ScenarioATable ==
    << [F |-> "a", T |-> "Yes"], [F |-> "a", T |-> "Yes"],
       [F |-> "b", T |-> "No"],  [F |-> "b", T |-> "No"] >>

ScenarioATree ==
    NodeTree("F", << [value |-> "a", child |-> LeafTree("Yes")],
                     [value |-> "b", child |-> LeafTree("No")] >>)

\* ---- properties ----

\* C1: Scenario A (one feature F = a,a,b,b perfectly correlated with the
\* target Yes,Yes,No,No), built with max_depth >= 1, returns the node on F
\* with children {a: Yes, b: No}, not None.
ScenarioABuildsNode ==
    (phase = "done" /\ columns = <<"F">> /\ df = ScenarioATable /\ max_depth >= 1)
        => result = ScenarioATree

\* C2: when the gains are not all equal, the selected feature is the element
\* of the configured feature list at the first index of maximal gain, and so
\* a member of that list.
SelectsFirstMaxOfFeatureList ==
    (call.made /\ ~AllGainsEqual)
        => /\ call.node = features[FirstMaxGain]
           /\ call.node \in Range(features)

NoFeatureAbandonsOnce ==
    /\ (/\ Returned
        /\ ~SingleLabel(last.df)
        /\ \A k \in 1..Len(features) : ConstantOn(last.df, features[k]))
          => /\ last.how = "abandon"
             /\ last.result.kind = "none"
             /\ last.printed = 1
    /\ notices = noneCalls

\* Most steps a call entered with depth d can take: its selection, then for
\* each value a leaf or a recursive call, then its return.
RECURSIVE CallBudget(_)
CallBudget(d) ==
    IF d > max_depth THEN 0
    ELSE 2 + Len(FeatureValues) * (1 + CallBudget(d + 1))

\* C6: build_tree terminates (a build that has not returned is at a point of
\* the innermost call from which one of its branches is taken, and never
\* takes more steps than the budget of the outermost call), and no call is
\* active at a nesting level above max_depth (the outermost is level 0).
BuildTerminatesWithinDepth ==
    /\ phase # "done" => (phase = "new" \/ AtEntry \/ InLoop \/ AtLoopEnd)
    /\ steps <= 1 + CallBudget(0)
    /\ Len(stack) <= max_depth + 1

\* C6 witness: a call is active at nesting level max_depth >= 1 on a path
\* that selected the same feature twice.
DeepestLevelReusesFeature ==
    /\ max_depth >= 1
    /\ Len(stack) = max_depth + 1
    /\ \E j, k \in 1..Len(stack) :
          j < k /\ stack[j].node # None /\ stack[j].node = stack[k].node

\* C7: a recursive call made by a call entered with depth d gets depth d + 1,
\* so the depth of every call is its nesting level.
RecursesWithEntryDepthPlusOne ==
    \A k \in 2..Len(stack) :
        /\ stack[k].entry = stack[k - 1].entry + 1
        /\ stack[k].entry = k - 1

\* C8: a call entered with depth < max_depth that built a node returns one
\* key per distinct value of its feature: a Leaf for a pure partition, the
\* recursive call's result for an impure one.
OneKeyPerValue ==
    (BuiltNode /\ last.entry < max_depth) =>
        LET vals == unique(last.df, last.sel)
        IN  /\ Keys(last.result) = vals
            /\ \A k \in 1..Len(last.result.children) :
                  (last.result.children[k].child.kind = "leaf")
                      <=> SingleLabel(Filter(last.df, last.sel, vals[k]))

\* C9: every subtable of an active call is non-empty and is the rows of the
\* full table matching the path to it, and every Leaf of a tree under
\* construction or returned stands for a non-empty set of those rows that
\* all carry its label.
LeafSoundness ==
    /\ \A k \in 1..Len(stack) :
          /\ Len(stack[k].df) >= 1
          /\ stack[k].df = FilterPath(df, stack[k].path)
          /\ LeavesSound(stack[k].tree, stack[k].df)
    /\ Returned => LeavesSound(last.result, FilterPath(df, last.path))
    /\ phase = "done" => LeavesSound(result, df)

\* C9 witness: the build returned a tree with a Leaf below a nested node.
NestedLeafReturned ==
    /\ phase = "done"
    /\ result.kind = "node"
    /\ \E j \in 1..Len(result.children) :
          LET c == result.children[j].child
          IN  /\ c.kind = "node"
              /\ \E k \in 1..Len(c.children) : c.children[k].child.kind = "leaf"

\* C10: a call is abandoned (notice, no node) exactly when selection returned
\* None; any returned feature name gets a node.
AbandonsIffNone ==
    Returned => ((last.how = "abandon") <=> (last.sel = None))
====
